---- MODULE Spec2Model ----
(***************************************************************************)
(* A model of AudioFile<T> (src/main/AudioFile.h): the PCM WAVE codec, its *)
(* sample buffer and format metadata, decodeWaveFile, saveToWaveFile and   *)
(* the sample converters.                                                  *)
(*                                                                         *)
(* Conventions of the model                                                *)
(*  - A byte stream (String fileData, LinkedList<uint8_t> fileData) is a   *)
(*    sequence of numbers 0..255; source index i is element i + 1.         *)
(*  - A sample of type T is held as an integer number of 1/8388608 (2^-23) *)
(*    steps: the sample 1.0 is Unit, 0.5 is Unit \div 2.  Every value the  *)
(*    8, 16 and 24 bit decoders produce is on this grid, and the products  *)
(*    the encoders form are exact in double precision, so the arithmetic   *)
(*    on T is modelled as exact.                                           *)
(*  - TLC integers are 32 bit signed.  int, int16_t and int32_t values are *)
(*    integers; a uint32_t product that can wrap is formed on four 8-bit   *)
(*    limbs (Limbs, MulLimbs).  int is taken to be 32 bits wide.           *)
(***************************************************************************)
EXTENDS Integers, Sequences, FiniteSets, TLC

VARIABLES samples, sampleRate, bitDepth, audioFileFormat, op, arg, ret, written

vars == <<samples, sampleRate, bitDepth, audioFileFormat, op, arg, ret, written>>

(***************************************************************************)
(* Bounds of the model.                                                    *)
(***************************************************************************)
MaxChannels == 3
MaxSamples == 2
MaxConv == 31
MaxLen == 5

(***************************************************************************)
(* Program constants.                                                      *)
(***************************************************************************)
Unit == 8388608
Scale16 == 32768
Max16 == 32767
Scale8 == 128
Max8 == 255
DefaultBitDepth == 16
DefaultSampleRate == 44100

RIFF == <<82, 73, 70, 70>>
WAVE == <<87, 65, 86, 69>>
FMT_ == <<102, 109, 116, 32>>
FMT == <<102, 109, 116>>
DATA == <<100, 97, 116, 97>>

(***************************************************************************)
(* Arithmetic helpers.                                                     *)
(***************************************************************************)
\* C++ integer division and float-to-integer conversion truncate toward zero.
TruncDiv(a, b) == IF a >= 0 THEN a \div b ELSE -((-a) \div b)

\* static_cast<integer>(x * m / d) for a sample-grid value x, computed
\* without leaving the 32 bit range: x = 256 q + r, d a multiple of 256.
MulDivTrunc(x, m, d) ==
    LET a == IF x >= 0 THEN x ELSE -x
        q == a \div 256
        r == a % 256
        v == (q * m + ((r * m) \div 256)) \div (d \div 256)
    IN  IF x >= 0 THEN v ELSE -v

\* The four bytes, least significant first, of a 32 bit two's complement value.
Limbs(i) == <<i % 256, (i \div 256) % 256, (i \div 65536) % 256, (i \div 16777216) % 256>>

\* Product of two 32 bit values modulo 2^32 (unsigned int multiplication).
MulLimbs(x, y) ==
    LET s0 == x[1] * y[1]
        s1 == x[1] * y[2] + x[2] * y[1] + (s0 \div 256)
        s2 == x[1] * y[3] + x[2] * y[2] + x[3] * y[1] + (s1 \div 256)
        s3 == x[1] * y[4] + x[2] * y[3] + x[3] * y[2] + x[4] * y[1] + (s2 \div 256)
    IN  <<s0 % 256, s1 % 256, s2 % 256, s3 % 256>>

\* Unsigned division by 8 of a 32 bit value; the quotient is below 2^29.
Div8Limbs(x) == ((x[1] + 256 * x[2] + 65536 * x[3]) \div 8) + x[4] * 2097152

\* int16_t and int32_t read the bit pattern as two's complement.
ToInt16(u) == IF (u % 65536) >= 32768 THEN (u % 65536) - 65536 ELSE u % 65536

(***************************************************************************)
(* The container (LinkedList.h) and splitString (Util.h).                  *)
(***************************************************************************)
\* list.resize(n): truncates, or appends n - size() copies of fillValue.
Resize(list, n, fillValue) ==
    [i \in 1..n |-> IF i <= Len(list) THEN list[i] ELSE fillValue]

\* samples.fill(from, to, value) on the channel list: every sample of the
\* channels from..to (source indices, clipped to the list) becomes value.
Fill(buf, from, to, value) ==
    [k \in 1..Len(buf) |->
        IF from <= k - 1 /\ k - 1 <= to
        THEN [i \in 1..Len(buf[k]) |-> value]
        ELSE buf[k]]

\* splitString(source, from, to): the bytes at source indices from..to-1,
\* clipped to the end of the stream.
splitString(source, from, to) ==
    LET hi == IF to <= Len(source) THEN to ELSE Len(source)
    IN  IF from >= hi THEN <<>> ELSE SubSeq(source, from + 1, hi)

\* source[index] of a byte stream; an index outside the stream is a read
\* outside the object, whose result is the byte wild.
ByteAt(source, index, wild) ==
    IF index >= 0 /\ index < Len(source) THEN source[index + 1] ELSE wild

\* samples[channel][i]; an index outside the channel yields the value wild.
SampleAt(buf, channel, i, wild) ==
    IF channel < Len(buf) /\ i < Len(buf[channel + 1]) THEN buf[channel + 1][i + 1] ELSE wild

(***************************************************************************)
(* Sample converters.                                                      *)
(***************************************************************************)
clamp(value, minValue, maxValue) ==
    LET v1 == IF value < minValue THEN value ELSE minValue
    IN  IF v1 > maxValue THEN v1 ELSE maxValue

sixteenBitIntToSample(sample) == sample * (Unit \div Scale16)

sampleToSixteenBitInt(sample) ==
    MulDivTrunc(clamp(sample, -Unit, Unit), Max16, Unit)

sampleToSingleByte(sample) ==
    MulDivTrunc(clamp(sample, -Unit, Unit) + Unit, Max8, 2 * Unit)

singleByteToSample(sample) == (sample - 128) * (Unit \div Scale8)

\* 24 bit decode: three bytes, sign extension of bit 23, division by 2^23.
twentyFourBitToSample(b0, b1, b2) ==
    LET sampleAsInt == b2 * 65536 + b1 * 256 + b0
    IN  IF (sampleAsInt \div 8388608) % 2 = 1 THEN sampleAsInt - 16777216 ELSE sampleAsInt

\* 24 bit encode: (int32_t)(sample * 8388608.), then its three low bytes.
sampleToTwentyFourBit(sample) ==
    LET sampleAsIntAgain == sample
    IN  <<sampleAsIntAgain % 256, (sampleAsIntAgain \div 256) % 256, (sampleAsIntAgain \div 65536) % 256>>

(***************************************************************************)
(* Byte-order helpers.                                                     *)
(***************************************************************************)
fourBytesToInt(source, startIndex, wild) ==
    LET b3 == ByteAt(source, startIndex + 3, wild)
        hi == IF b3 >= 128 THEN b3 - 256 ELSE b3
    IN  hi * 16777216 + ByteAt(source, startIndex + 2, wild) * 65536
          + ByteAt(source, startIndex + 1, wild) * 256 + ByteAt(source, startIndex, wild)

twoBytesToInt(source, startIndex, wild) ==
    ToInt16(ByteAt(source, startIndex + 1, wild) * 256 + ByteAt(source, startIndex, wild))

addStringToFileData(fileData, s) == fileData \o s

\* addInt32ToFileData writing the most significant byte first.
addInt32ToFileDataBigEndian(fileData, i) ==
    fileData \o <<(i \div 16777216) % 256, (i \div 65536) % 256, (i \div 256) % 256, i % 256>>

addInt32ToFileData(fileData, i) == fileData \o Limbs(i)

\* addInt16ToFileData writing the most significant byte first.
addInt16ToFileDataBigEndian(fileData, i) == fileData \o <<(i \div 256) % 256, i % 256>>

addInt16ToFileData(fileData, i) == fileData \o <<i % 256, (i \div 256) % 256>>

(***************************************************************************)
(* Accessors.                                                              *)
(***************************************************************************)
getNumChannels(buf) == Len(buf)

getNumSamplesPerChannel(buf) == IF Len(buf) > 0 THEN Len(buf[1]) ELSE 0

(***************************************************************************)
(* Buffer management.                                                      *)
(***************************************************************************)
\* The loop of setAudioBuffer from channel k on; buf is the owned buffer as
\* the earlier iterations left it.  Returns the result and the buffer.
RECURSIVE setAudioBufferLoop(_, _, _, _)
setAudioBufferLoop(buf, newBuffer, numSamples, k) ==
    IF k >= getNumChannels(buf)
    THEN [ret |-> TRUE, samples |-> buf]
    ELSE IF Len(newBuffer[k + 1]) # numSamples
         THEN [ret |-> FALSE, samples |-> buf]
         ELSE setAudioBufferLoop([buf EXCEPT ![k + 1] = newBuffer[k + 1]],
                                 newBuffer, numSamples, k + 1)

setAudioBuffer(buf, newBuffer) ==
    LET numChannels == Len(newBuffer)
    IN  IF numChannels <= 0
        THEN [ret |-> FALSE, samples |-> buf]
        ELSE setAudioBufferLoop(Resize(buf, Len(newBuffer), <<>>), newBuffer,
                                Len(newBuffer[1]), 0)

RECURSIVE setNumSamplesLoop(_, _, _, _)
setNumSamplesLoop(buf, numSamples, originalSize, i) ==
    IF i >= getNumChannels(buf)
    THEN buf
    ELSE LET resized == [buf EXCEPT ![i + 1] = Resize(buf[i + 1], numSamples, 0)]
             filled == IF numSamples > originalSize
                       THEN Fill(resized, i + originalSize, Len(resized) - 1, 0)
                       ELSE resized
         IN  setNumSamplesLoop(filled, numSamples, originalSize, i + 1)

setNumSamplesPerChannel(buf, numSamples) ==
    setNumSamplesLoop(buf, numSamples, getNumSamplesPerChannel(buf), 0)

setAudioBufferSize(buf, numChannels, numSamples) ==
    setNumSamplesPerChannel(Resize(buf, numChannels, <<>>), numSamples)

\* New channels left without samples.
newChannelSizeZero(originalNumSamplesPerChannel) == 0

\* The size a new channel of setNumChannels is given.
newChannelSize(originalNumSamplesPerChannel) == originalNumSamplesPerChannel

RECURSIVE setNumChannelsLoop(_, _, _, _)
setNumChannelsLoop(buf, numChannels, originalNumSamplesPerChannel, i) ==
    IF i >= numChannels
    THEN buf
    ELSE LET resized == [buf EXCEPT ![i + 1] =
                            Resize(buf[i + 1], newChannelSize(originalNumSamplesPerChannel), 0)]
         IN  setNumChannelsLoop(Fill(resized, i, Len(resized) - 1, 0), numChannels,
                                originalNumSamplesPerChannel, i + 1)

setNumChannels(buf, numChannels) ==
    LET originalNumChannels == getNumChannels(buf)
        originalNumSamplesPerChannel == getNumSamplesPerChannel(buf)
        resized == Resize(buf, numChannels, <<>>)
    IN  IF numChannels > originalNumChannels
        THEN setNumChannelsLoop(resized, numChannels, originalNumSamplesPerChannel,
                                originalNumChannels)
        ELSE resized

(***************************************************************************)
(* Decode.                                                                 *)
(***************************************************************************)
RECURSIVE getIndexOfStringFrom(_, _, _)
getIndexOfStringFrom(source, stringToSearchFor, i) ==
    IF i >= Len(source) - Len(stringToSearchFor)
    THEN -1
    ELSE IF splitString(source, i, i + Len(stringToSearchFor)) = stringToSearchFor
         THEN i
         ELSE getIndexOfStringFrom(source, stringToSearchFor, i + 1)

getIndexOfString(source, stringToSearchFor) ==
    getIndexOfStringFrom(source, stringToSearchFor, 0)

determineAudioFileFormat(fileData) ==
    IF splitString(fileData, 0, 4) = RIFF THEN "Wave" ELSE "Error"

\* The checks of decodeWaveFile, each TRUE when the file passes.
ChunksFound(fileData, indexOfDataChunk, indexOfFormatChunk) ==
    ~ (\/ indexOfDataChunk = -1
       \/ indexOfFormatChunk = -1
       \/ splitString(fileData, 0, 4) # RIFF
       \/ splitString(fileData, 8, 12) # WAVE)

FormatIsPCM(audioFormat) == ~ (audioFormat # 1)

\* The channel check letting three channels through.
ChannelsSupportedUpToThree(numChannels) == ~ (numChannels < 1 \/ numChannels > 3)

ChannelsSupported(numChannels) == ~ (numChannels < 1 \/ numChannels > 2)

\* (numChannels * sampleRate * bitDepth) / 8 in unsigned 32 bit arithmetic.
bytesPerSecond(numChannels, rate, depth) ==
    Div8Limbs(MulLimbs(MulLimbs(Limbs(numChannels), Limbs(rate)), Limbs(depth)))

HeaderConsistent(numChannels, rate, depth, numBytesPerSecond, numBytesPerBlock) ==
    ~ (\/ numBytesPerSecond < 0
       \/ numBytesPerSecond # bytesPerSecond(numChannels, rate, depth)
       \/ numBytesPerBlock # numChannels * TruncDiv(depth, 8))

BitDepthSupported(depth) == ~ (depth # 8 /\ depth # 16 /\ depth # 24)

\* The sample read at sampleIndex for a supported bit depth.
decodeSample(fileData, sampleIndex, depth, wild) ==
    IF depth = 8
    THEN singleByteToSample(ByteAt(fileData, sampleIndex, wild))
    ELSE IF depth = 16
         THEN sixteenBitIntToSample(twoBytesToInt(fileData, sampleIndex, wild))
         ELSE twentyFourBitToSample(ByteAt(fileData, sampleIndex, wild),
                                    ByteAt(fileData, sampleIndex + 1, wild),
                                    ByteAt(fileData, sampleIndex + 2, wild))

\* The byte offset of sample i of a channel with each channel's samples
\* stored together, one channel after the other.
sampleIndexOfPlanar(samplesStartIndex, numBytesPerBlock, numBytesPerSample, i, channel) ==
    samplesStartIndex + (numBytesPerSample * i) + channel * numBytesPerBlock

\* The byte offset of sample i of a channel.
sampleIndexOf(samplesStartIndex, numBytesPerBlock, numBytesPerSample, i, channel) ==
    samplesStartIndex + (numBytesPerBlock * i) + channel * numBytesPerSample

\* The result of decodeWaveFile and what it assigned on the way: nothing
\* ("none"), sampleRate and bitDepth ("header"), or these and samples ("all").
\* lastIndexRead is the highest index at which it read fileData through
\* operator[] (-1 when it read none); the lowest is never below 0.
decodeWaveFile(fileData, wild) ==
    LET indexOfDataChunk == getIndexOfString(fileData, DATA)
        indexOfFormatChunk == getIndexOfString(fileData, FMT)
        f == indexOfFormatChunk
        audioFormat == twoBytesToInt(fileData, f + 8, wild)
        numChannels == twoBytesToInt(fileData, f + 10, wild)
        rate == fourBytesToInt(fileData, f + 12, wild)
        numBytesPerSecond == fourBytesToInt(fileData, f + 16, wild)
        numBytesPerBlock == twoBytesToInt(fileData, f + 20, wild)
        depth == twoBytesToInt(fileData, f + 22, wild)
        numBytesPerSample == TruncDiv(depth, 8)
        d == indexOfDataChunk
        dataChunkSize == fourBytesToInt(fileData, d + 4, wild)
        numSamples == TruncDiv(dataChunkSize, TruncDiv(numChannels * depth, 8))
        samplesStartIndex == indexOfDataChunk + 8
        \* clearAudioBuffer(), samples.resize (numChannels), then one Append
        \* per sample and channel
        decoded == [channel \in 1..numChannels |->
                      [i \in 1..numSamples |->
                          decodeSample(fileData,
                                       sampleIndexOf(samplesStartIndex, numBytesPerBlock,
                                                     numBytesPerSample, i - 1, channel - 1),
                                       depth, wild)]]
        lastHeaderRead == f + 23
        lastDataRead ==
            IF numSamples > 0
            THEN sampleIndexOf(samplesStartIndex, numBytesPerBlock, numBytesPerSample,
                               numSamples - 1, numChannels - 1) + numBytesPerSample - 1
            ELSE d + 7
    IN  IF ~ ChunksFound(fileData, indexOfDataChunk, indexOfFormatChunk)
        THEN [ret |-> FALSE, assigned |-> "none", sampleRate |-> 0, bitDepth |-> 0,
              samples |-> <<>>, lastIndexRead |-> -1]
        ELSE IF \/ ~ FormatIsPCM(audioFormat)
                \/ ~ ChannelsSupported(numChannels)
                \/ ~ HeaderConsistent(numChannels, rate, depth, numBytesPerSecond, numBytesPerBlock)
                \/ ~ BitDepthSupported(depth)
             THEN [ret |-> FALSE, assigned |-> "header", sampleRate |-> rate,
                   bitDepth |-> depth, samples |-> <<>>, lastIndexRead |-> lastHeaderRead]
             ELSE [ret |-> TRUE, assigned |-> "all", sampleRate |-> rate,
                   bitDepth |-> depth, samples |-> decoded,
                   lastIndexRead |-> IF lastDataRead > lastHeaderRead
                                     THEN lastDataRead ELSE lastHeaderRead]

\* load: r is what decodeWaveFile(fileData, wild) yields; st is the codec
\* state [samples, sampleRate, bitDepth] before the call.
load(st, fileData, r) ==
    LET format == determineAudioFileFormat(fileData)
    IN  IF format = "Wave"
        THEN [ret |-> r.ret,
              st |-> [samples |-> IF r.assigned = "all" THEN r.samples ELSE st.samples,
                      sampleRate |-> IF r.assigned = "none" THEN st.sampleRate ELSE r.sampleRate,
                      bitDepth |-> IF r.assigned = "none" THEN st.bitDepth ELSE r.bitDepth],
              audioFileFormat |-> format, lastIndexRead |-> r.lastIndexRead]
        ELSE [ret |-> FALSE, st |-> st, audioFileFormat |-> format, lastIndexRead |-> -1]

(***************************************************************************)
(* Encode.                                                                 *)
(***************************************************************************)
\* The bytes appended for one sample at a supported bit depth.
encodeSample(fileData, depth, sample) ==
    IF depth = 8
    THEN Append(fileData, sampleToSingleByte(sample))
    ELSE IF depth = 16
         THEN addInt16ToFileData(fileData, sampleToSixteenBitInt(sample))
         ELSE fileData \o sampleToTwentyFourBit(sample)

\* The sample loop of saveToWaveFile from position k on, k counting the
\* (i, channel) pairs in loop order: i = k \div channels, channel = k % channels.
RECURSIVE encodeLoop(_, _, _, _, _)
encodeLoop(fileData, buf, depth, wild, k) ==
    IF k >= getNumSamplesPerChannel(buf) * getNumChannels(buf)
    THEN fileData
    ELSE encodeLoop(encodeSample(fileData, depth,
                                 SampleAt(buf, k % getNumChannels(buf),
                                          k \div getNumChannels(buf), wild)),
                    buf, depth, wild, k + 1)

\* The header and the data chunk header: the 44 bytes before the samples.
waveHeader(buf, rate, depth) ==
    LET dataChunkSize == getNumSamplesPerChannel(buf) * TruncDiv(getNumChannels(buf) * depth, 8)
        fileSizeInBytes == 4 + 24 + 8 + dataChunkSize
        numBytesPerSecond == bytesPerSecond(getNumChannels(buf), rate, depth)
        numBytesPerBlock == getNumChannels(buf) * TruncDiv(depth, 8)
        h1 == addStringToFileData(<<>>, RIFF)
        h2 == addInt32ToFileData(h1, fileSizeInBytes)
        h3 == addStringToFileData(h2, WAVE)
        f1 == addStringToFileData(h3, FMT_)
        f2 == addInt32ToFileData(f1, 16)
        f3 == addInt16ToFileData(f2, 1)
        f4 == addInt16ToFileData(f3, getNumChannels(buf))
        f5 == addInt32ToFileData(f4, rate)
        f6 == addInt32ToFileData(f5, numBytesPerSecond)
        f7 == addInt16ToFileData(f6, numBytesPerBlock)
        f8 == addInt16ToFileData(f7, depth)
        d1 == addStringToFileData(f8, DATA)
    IN  addInt32ToFileData(d1, dataChunkSize)

\* TRUE when the sample loop reaches its unsupported-bit-depth return.
encodeRejects(buf, depth) ==
    /\ getNumSamplesPerChannel(buf) > 0
    /\ getNumChannels(buf) > 0
    /\ ~ (depth = 8 \/ depth = 16 \/ depth = 24)

\* TRUE when the size check at the end of saveToWaveFile fails.
sizeCheckFails(fileData, buf, depth) ==
    LET dataChunkSize == getNumSamplesPerChannel(buf) * TruncDiv(getNumChannels(buf) * depth, 8)
        fileSizeInBytes == 4 + 24 + 8 + dataChunkSize
    IN  \/ fileSizeInBytes # Len(fileData) - 8
        \/ dataChunkSize # getNumSamplesPerChannel(buf) * getNumChannels(buf) * TruncDiv(depth, 8)

\* handed: fileData reaches writeDataToFile; ret: the result, writeOk being
\* what writeDataToFile returns.
saveToWaveFile(st, wild, writeOk) ==
    LET fileData == encodeLoop(waveHeader(st.samples, st.sampleRate, st.bitDepth),
                               st.samples, st.bitDepth, wild, 0)
    IN  IF encodeRejects(st.samples, st.bitDepth)
        THEN [ret |-> FALSE, handed |-> FALSE, bytes |-> <<>>]
        ELSE IF sizeCheckFails(fileData, st.samples, st.bitDepth)
             THEN [ret |-> FALSE, handed |-> FALSE, bytes |-> <<>>]
             ELSE [ret |-> writeOk, handed |-> TRUE, bytes |-> fileData]

save(st, format, wild, writeOk) ==
    IF format = "Wave"
    THEN saveToWaveFile(st, wild, writeOk)
    ELSE [ret |-> FALSE, handed |-> FALSE, bytes |-> <<>>]

(***************************************************************************)
(* Inputs of the operations.                                               *)
(***************************************************************************)
\* The sample at position i of channel ch of an input buffer (both counted
\* from 0): distinct at distinct positions, and inside (-1.0, 1.0).
RampSample(ch, i, sign) == sign * (Unit \div 16) * (1 + i * (MaxChannels + 1) + ch)

\* The buffer whose channel k has lengths[k] samples.
BufferOf(lengths, sign) ==
    [k \in 1..Len(lengths) |-> [i \in 1..lengths[k] |-> RampSample(k - 1, i - 1, sign)]]

\* The lengths of the channels of a buffer of up to MaxChannels channels.
Shapes == UNION {[1..c -> 0..MaxSamples] : c \in 0..MaxChannels}

\* Replacement buffers: up to MaxChannels channels, all of one length or
\* with one channel of another length.  setAudioBuffer stops at the first
\* channel whose length differs from channel 0 and never reads the later ones.
AudioBuffers ==
    {BufferOf(lengths, 1) : lengths \in
        {s \in Shapes : Cardinality({k \in 1..Len(s) : s[k] # s[1]}) <= 1}}

IsRectangular(buf) == \A k \in 1..Len(buf) : Len(buf[k]) = Len(buf[1])

\* The buffers set before a save: the rectangular ones, of positive or of
\* negative samples, and one that setAudioBuffer refuses.
IOBuffers ==
    {b \in {BufferOf(lengths, sign) : lengths \in Shapes, sign \in {1, -1}} : IsRectangular(b)}
      \cup {BufferOf(<<2, 1>>, 1)}

Depths == {8, 16, 24, 12}

Rates == {8000, 44100, 536870912}

\* What a read outside a channel or outside the stream may yield.
WildSamples == {0, Unit \div 2}
WildBytes == {0, 255}

\* A RIFF/WAVE stream assembled field by field; fields are little-endian.
LE16(i) == <<i % 256, (i \div 256) % 256>>

MakeWav(h) ==
    h.riff \o Limbs(36 + Len(h.payload)) \o h.wave \o h.extra
      \o h.fmt \o Limbs(16) \o LE16(h.audioFormat) \o LE16(h.numChannels)
      \o Limbs(h.rate) \o Limbs(h.byteRate) \o LE16(h.blockAlign) \o LE16(h.bitDepth)
      \o h.data \o Limbs(h.dataSize) \o h.payload

PayloadBytes == <<0, 64, 255, 127, 1, 128, 16, 200, 0, 192, 7, 255>>

\* A well-formed PCM stream of n samples per channel.
GoodHeader(c, depth, rate, n) ==
    [riff |-> RIFF, wave |-> WAVE, extra |-> <<>>, fmt |-> FMT_, data |-> DATA,
     audioFormat |-> 1, numChannels |-> c, rate |-> rate,
     byteRate |-> (c * rate * depth) \div 8, blockAlign |-> c * (depth \div 8),
     bitDepth |-> depth, dataSize |-> n * c * (depth \div 8),
     payload |-> SubSeq(PayloadBytes, 1, n * c * (depth \div 8))]

GoodStreams ==
    {MakeWav(GoodHeader(c, depth, 8000, n)) : c \in {1, 2}, depth \in {8, 16, 24}, n \in {1, 2}}

BaseHeader == GoodHeader(1, 16, 8000, 1)

BadStreams ==
    { MakeWav([BaseHeader EXCEPT !.riff = <<82, 73, 70, 88>>]),
      MakeWav([BaseHeader EXCEPT !.wave = <<87, 65, 86, 88>>]),
      MakeWav([BaseHeader EXCEPT !.fmt = <<102, 109, 120, 32>>]),
      MakeWav([BaseHeader EXCEPT !.data = <<100, 97, 116, 120>>]),
      MakeWav([BaseHeader EXCEPT !.audioFormat = 2]),
      MakeWav([BaseHeader EXCEPT !.numChannels = 3, !.byteRate = 48000, !.blockAlign = 6]),
      MakeWav([BaseHeader EXCEPT !.numChannels = 0, !.byteRate = 0, !.blockAlign = 0]),
      MakeWav([BaseHeader EXCEPT !.byteRate = 16001]),
      MakeWav([BaseHeader EXCEPT !.blockAlign = 3]),
      MakeWav([BaseHeader EXCEPT !.bitDepth = 12, !.byteRate = 12000, !.blockAlign = 1]),
      MakeWav([BaseHeader EXCEPT !.bitDepth = 32, !.byteRate = 32000, !.blockAlign = 4]),
      MakeWav([BaseHeader EXCEPT !.rate = 44100]) }

OddStreams ==
    { \* an extra chunk before the format chunk
      MakeWav([BaseHeader EXCEPT !.extra = <<76, 73, 83, 84, 2, 0, 0, 0, 9, 9>>]),
      \* a sample rate whose byte-rate product wraps in 32 bits
      MakeWav([GoodHeader(1, 8, 8000, 1) EXCEPT !.rate = 536870912, !.byteRate = 0]),
      MakeWav([GoodHeader(1, 8, 8000, 1) EXCEPT !.rate = 536870912, !.byteRate = 536870912]),
      \* a declared data size larger than the bytes present
      MakeWav([BaseHeader EXCEPT !.dataSize = 4]),
      \* the stream ends inside the size field of the data chunk
      SubSeq(MakeWav(BaseHeader), 1, 42) }

Streams == GoodStreams \cup BadStreams \cup OddStreams

\* The streams loaded between buffer-management calls.
BufferStreams ==
    { MakeWav(GoodHeader(1, 16, 44100, 2)), MakeWav(GoodHeader(2, 16, 44100, 1)),
      MakeWav([GoodHeader(1, 16, 44100, 1) EXCEPT !.audioFormat = 2]),
      MakeWav([GoodHeader(1, 16, 44100, 1) EXCEPT !.riff = <<82, 73, 70, 88>>]) }

(***************************************************************************)
(* The state machine.  op, arg and ret record the operation that produced  *)
(* the state, its inputs and its result; written is what that operation    *)
(* handed to writeDataToFile.                                              *)
(***************************************************************************)
NoArg == [buf |-> <<>>, a |-> 0, b |-> 0, bytes |-> <<>>, fromSave |-> FALSE, s |-> <<>>]

NotWritten == [handed |-> FALSE, bytes |-> <<>>]

State == [samples |-> samples, sampleRate |-> sampleRate, bitDepth |-> bitDepth]

\* AudioFile(): 16 bit, 44100 Hz, one channel of no samples, NotLoaded.
Init ==
    /\ bitDepth = DefaultBitDepth
    /\ sampleRate = DefaultSampleRate
    /\ samples = <<<<>>>>
    /\ audioFileFormat = "NotLoaded"
    /\ op = "AudioFile"
    /\ arg = NoArg
    /\ ret = TRUE
    /\ written = NotWritten

SetAudioBuffer(newBuffer) ==
    LET r == setAudioBuffer(samples, newBuffer)
    IN  /\ samples' = r.samples
        /\ op' = "setAudioBuffer"
        /\ arg' = [NoArg EXCEPT !.buf = newBuffer]
        /\ ret' = r.ret
        /\ written' = NotWritten
        /\ UNCHANGED <<sampleRate, bitDepth, audioFileFormat>>

SetAudioBufferSize(numChannels, numSamples) ==
    /\ samples' = setAudioBufferSize(samples, numChannels, numSamples)
    /\ op' = "setAudioBufferSize"
    /\ arg' = [NoArg EXCEPT !.a = numChannels, !.b = numSamples]
    /\ ret' = TRUE
    /\ written' = NotWritten
    /\ UNCHANGED <<sampleRate, bitDepth, audioFileFormat>>

SetNumSamplesPerChannel(numSamples) ==
    /\ samples' = setNumSamplesPerChannel(samples, numSamples)
    /\ op' = "setNumSamplesPerChannel"
    /\ arg' = [NoArg EXCEPT !.a = numSamples]
    /\ ret' = TRUE
    /\ written' = NotWritten
    /\ UNCHANGED <<sampleRate, bitDepth, audioFileFormat>>

\* arg.b keeps the channel count the call started from.
SetNumChannels(numChannels) ==
    /\ samples' = setNumChannels(samples, numChannels)
    /\ op' = "setNumChannels"
    /\ arg' = [NoArg EXCEPT !.a = numChannels, !.b = getNumChannels(samples)]
    /\ ret' = TRUE
    /\ written' = NotWritten
    /\ UNCHANGED <<sampleRate, bitDepth, audioFileFormat>>

SetBitDepth(numBitsPerSample) ==
    /\ bitDepth' = numBitsPerSample
    /\ op' = "setBitDepth"
    /\ arg' = [NoArg EXCEPT !.a = numBitsPerSample]
    /\ ret' = TRUE
    /\ written' = NotWritten
    /\ UNCHANGED <<samples, sampleRate, audioFileFormat>>

SetSampleRate(newSampleRate) ==
    /\ sampleRate' = newSampleRate
    /\ op' = "setSampleRate"
    /\ arg' = [NoArg EXCEPT !.a = newSampleRate]
    /\ ret' = TRUE
    /\ written' = NotWritten
    /\ UNCHANGED <<samples, bitDepth, audioFileFormat>>

\* decodeWaveFile tabulated over the streams the callers supply.
Decoded == [fileData \in Streams \cup BufferStreams |->
               [wild \in WildBytes |-> decodeWaveFile(fileData, wild)]]

LoadBytes(fileData, fromSave) ==
    \E wild \in WildBytes :
        LET r == load(State, fileData,
                      IF fromSave THEN decodeWaveFile(fileData, wild)
                                  ELSE Decoded[fileData][wild])
        IN  /\ samples' = r.st.samples
            /\ sampleRate' = r.st.sampleRate
            /\ bitDepth' = r.st.bitDepth
            /\ audioFileFormat' = r.audioFileFormat
            /\ op' = "load"
            /\ arg' = [NoArg EXCEPT !.bytes = fileData, !.fromSave = fromSave,
                                    !.b = r.lastIndexRead]
            /\ ret' = r.ret
            /\ written' = NotWritten

\* load of a byte stream supplied by the caller.
Load(fileData) == LoadBytes(fileData, FALSE)

\* load of the bytes the save just before handed to writeDataToFile.
LoadSaved ==
    /\ op = "save"
    /\ ret = TRUE
    /\ written.handed
    /\ LoadBytes(written.bytes, TRUE)

Save(format) ==
    \E wild \in WildSamples, writeOk \in BOOLEAN :
        LET r == save(State, format, wild, writeOk)
        IN  /\ op' = "save"
            /\ arg' = [NoArg EXCEPT !.a = IF format = "Wave" THEN 1 ELSE 0]
            /\ ret' = r.ret
            /\ written' = [handed |-> r.handed, bytes |-> r.bytes]
            /\ UNCHANGED <<samples, sampleRate, bitDepth, audioFileFormat>>

Next ==
    \/ \E newBuffer \in AudioBuffers : SetAudioBuffer(newBuffer)
    \/ \E c \in 0..MaxChannels, n \in 0..MaxSamples : SetAudioBufferSize(c, n)
    \/ \E n \in 0..MaxSamples : SetNumSamplesPerChannel(n)
    \/ \E c \in 0..MaxChannels : SetNumChannels(c)
    \/ \E fileData \in BufferStreams : Load(fileData)

Spec == Init /\ [][Next]_vars

\* Encode and decode: the buffer is set whole, then saved and loaded.
NextIO ==
    \/ \E newBuffer \in IOBuffers : SetAudioBuffer(newBuffer)
    \/ \E d \in Depths : SetBitDepth(d)
    \/ \E r \in Rates : SetSampleRate(r)
    \/ \E format \in {"Wave", "Aiff"} : Save(format)
    \/ \E fileData \in Streams : Load(fileData)
    \/ LoadSaved

SpecIO == Init /\ [][NextIO]_vars

(***************************************************************************)
(* The sample converters as functions of their input.                      *)
(***************************************************************************)
ConvSamples ==
    {k * (Unit \div 16) : k \in (-MaxConv)..MaxConv}
      \cup {Unit - 1, Unit + 1, 1 - Unit, -1 - Unit, 1, -1, 2 * Unit, -2 * Unit}

\* PCM codes: the low and the high end of the 8, 16 and 24 bit ranges.
ConvCodes ==
    UNION {{k, 255 - k, -k, 32767 - k, k - 32768, 8388607 - k, k - 8388608} : k \in 0..MaxConv}

\* op = "sample": arg.a is a sample of type T; op = "code": arg.a is a PCM code.
InitConv ==
    /\ bitDepth = DefaultBitDepth
    /\ sampleRate = DefaultSampleRate
    /\ samples = <<<<>>>>
    /\ audioFileFormat = "NotLoaded"
    /\ \/ op = "sample" /\ arg \in {[NoArg EXCEPT !.a = s] : s \in ConvSamples}
       \/ op = "code" /\ arg \in {[NoArg EXCEPT !.a = v] : v \in ConvCodes}
    /\ ret = 0
    /\ written = NotWritten

ApplySampleToSixteenBitInt ==
    /\ op = "sample"
    /\ op' = "sampleToSixteenBitInt"
    /\ ret' = sampleToSixteenBitInt(arg.a)
    /\ UNCHANGED <<samples, sampleRate, bitDepth, audioFileFormat, arg, written>>

ApplyClamp ==
    /\ op = "sample"
    /\ op' = "clamp"
    /\ ret' = clamp(arg.a, -Unit, Unit)
    /\ UNCHANGED <<samples, sampleRate, bitDepth, audioFileFormat, arg, written>>

\* The 24 bit branch of saveToWaveFile on one sample: the three bytes written.
ApplySampleToTwentyFourBit ==
    /\ op = "sample"
    /\ op' = "sampleToTwentyFourBit"
    /\ ret' = sampleToTwentyFourBit(arg.a)
    /\ UNCHANGED <<samples, sampleRate, bitDepth, audioFileFormat, arg, written>>

\* singleByteToSample then sampleToSingleByte on a uint8_t code.
ApplyRoundTrip8 ==
    /\ op = "code"
    /\ arg.a \in 0..255
    /\ op' = "roundTrip8"
    /\ ret' = sampleToSingleByte(singleByteToSample(arg.a))
    /\ UNCHANGED <<samples, sampleRate, bitDepth, audioFileFormat, arg, written>>

\* sixteenBitIntToSample then sampleToSixteenBitInt on an int16_t code.
ApplyRoundTrip16 ==
    /\ op = "code"
    /\ arg.a \in (-32768)..32767
    /\ op' = "roundTrip16"
    /\ ret' = sampleToSixteenBitInt(sixteenBitIntToSample(arg.a))
    /\ UNCHANGED <<samples, sampleRate, bitDepth, audioFileFormat, arg, written>>

\* The 24 bit decode of the three bytes of a code, then the 24 bit encode:
\* the three bytes written.
ApplyRoundTrip24 ==
    /\ op = "code"
    /\ arg.a \in (-8388608)..8388607
    /\ op' = "roundTrip24"
    /\ ret' = sampleToTwentyFourBit(
                  twentyFourBitToSample(arg.a % 256, (arg.a \div 256) % 256,
                                        (arg.a \div 65536) % 256))
    /\ UNCHANGED <<samples, sampleRate, bitDepth, audioFileFormat, arg, written>>

NextConv ==
    \/ ApplySampleToSixteenBitInt
    \/ ApplyClamp
    \/ ApplySampleToTwentyFourBit
    \/ ApplyRoundTrip8
    \/ ApplyRoundTrip16
    \/ ApplyRoundTrip24

SpecConv == InitConv /\ [][NextConv]_vars

(***************************************************************************)
(* The chunk search as a function of the stream and the marker.            *)
(***************************************************************************)
\* The bytes of the two markers decodeWaveFile searches for.
SearchBytes == {100, 97, 116, 102, 109}

SearchSources == UNION {[1..n -> SearchBytes] : n \in 0..MaxLen}

SearchMarkers == {DATA, FMT}

\* The result when the loop of getIndexOfString does not come to an end.
Unfinished == -2

\* source.length() is unsigned, so with a source shorter than the marker the
\* loop bound source.length() - stringLength wraps to a large value and the
\* loop counter, an int, overflows before it reaches it: the call returns -1
\* after the counter wrapped, or does not return.  No section matches, each
\* being shorter than the marker.
getIndexOfStringOutcomes(source, stringToSearchFor) ==
    IF Len(source) < Len(stringToSearchFor)
    THEN {-1, Unfinished}
    ELSE {getIndexOfString(source, stringToSearchFor)}

InitSearch ==
    /\ bitDepth = DefaultBitDepth
    /\ sampleRate = DefaultSampleRate
    /\ samples = <<<<>>>>
    /\ audioFileFormat = "NotLoaded"
    /\ op = "source"
    /\ arg \in {[NoArg EXCEPT !.bytes = source, !.s = marker] :
                   source \in SearchSources, marker \in SearchMarkers}
    /\ ret = 0
    /\ written = NotWritten

ApplyGetIndexOfString ==
    /\ op = "source"
    /\ op' = "getIndexOfString"
    /\ ret' \in getIndexOfStringOutcomes(arg.bytes, arg.s)
    /\ UNCHANGED <<samples, sampleRate, bitDepth, audioFileFormat, arg, written>>

NextSearch == ApplyGetIndexOfString

SpecSearch == InitSearch /\ [][NextSearch]_vars

(***************************************************************************)
(* Vocabulary of the properties, written without the codec's operators.    *)
(***************************************************************************)
ClaimAbs(x) == IF x >= 0 THEN x ELSE -x

\* The little-endian bytes of a value 0 <= v < 2^31.
ClaimLE(v, width) == [j \in 1..width |-> (v \div (256 ^ (j - 1))) % 256]

\* The bytes at source offsets off .. off + width - 1.
ClaimField(bytes, off, width) == SubSeq(bytes, off + 1, off + width)

\* The unsigned value of the 16 bit field at off.
ClaimU16(bytes, off) == bytes[off + 1] + 256 * bytes[off + 2]

\* The unsigned value of the 32 bit field at off, for fields below 2^31.
ClaimU32(bytes, off) ==
    bytes[off + 1] + 256 * bytes[off + 2] + 65536 * bytes[off + 3] + 16777216 * bytes[off + 4]

ClaimOccursAt(bytes, marker, i) ==
    /\ i + Len(marker) <= Len(bytes)
    /\ \A j \in 1..Len(marker) : bytes[i + j] = marker[j]

ClaimOccurs(bytes, marker) == \E i \in 0..Len(bytes) : ClaimOccursAt(bytes, marker, i)

ClaimFirst(bytes, marker) ==
    CHOOSE i \in 0..Len(bytes) :
        /\ ClaimOccursAt(bytes, marker, i)
        /\ \A j \in 0..(i - 1) : ~ ClaimOccursAt(bytes, marker, j)

\* channels * sampleRate * bitDepth / 8 with the product taken modulo 2^32,
\* the width of the field and of the arithmetic that forms it.
ClaimByteRate(channels, rate, depth) ==
    LET m == channels * depth
        a == (rate \div 65536) * m
        b == (rate % 65536) * m
        hi == (a + (b \div 65536)) % 65536
    IN  hi * 8192 + ((b % 65536) \div 8)

ClaimSamplesPerChannel == IF Len(samples) > 0 THEN Len(samples[1]) ELSE 0

\* samplesPerChannel * channels * (bitDepth / 8) of the current buffer.
ClaimDataSize == ClaimSamplesPerChannel * Len(samples) * (bitDepth \div 8)

(***************************************************************************)
(* Properties.                                                             *)
(***************************************************************************)

\* C1: a load of the bytes a successful 16 bit save of a buffer of 1 or 2
\* equal-length channels with samples in [-1.0, 1.0] produced returns true
\* and yields the same channel count, samples-per-channel count and sample
\* rate, and every decoded sample within 1/32768 of the original.
C1_RoundTrip16 ==
    [][ ( /\ op' = "load"
          /\ arg'.fromSave
          /\ bitDepth = 16
          /\ Len(samples) \in {1, 2}
          /\ \A k \in 1..Len(samples) : Len(samples[k]) = Len(samples[1])
          /\ \A k \in 1..Len(samples) : \A i \in 1..Len(samples[k]) :
                 -Unit <= samples[k][i] /\ samples[k][i] <= Unit )
        => ( /\ ret' = TRUE
             /\ Len(samples') = Len(samples)
             /\ \A k \in 1..Len(samples) : Len(samples'[k]) = Len(samples[k])
             /\ sampleRate' = sampleRate
             /\ \A k \in 1..Len(samples) : \A i \in 1..Len(samples[k]) :
                    ClaimAbs(samples'[k][i] - samples[k][i]) <= Unit \div 32768 ) ]_vars

\* What a well-formed PCM stream is: magic, markers, and the format fields.
ClaimWellFormed(bytes) ==
    /\ Len(bytes) >= 12
    /\ ClaimField(bytes, 0, 4) = <<82, 73, 70, 70>>
    /\ ClaimField(bytes, 8, 4) = <<87, 65, 86, 69>>
    /\ ClaimOccurs(bytes, <<102, 109, 116>>)
    /\ ClaimOccurs(bytes, <<100, 97, 116, 97>>)
    /\ LET f == ClaimFirst(bytes, <<102, 109, 116>>)
           numChannels == ClaimU16(bytes, f + 10)
           depth == ClaimU16(bytes, f + 22)
       IN  /\ f + 24 <= Len(bytes)
           /\ ClaimU16(bytes, f + 8) = 1
           /\ numChannels \in {1, 2}
           /\ depth \in {8, 16, 24}
           /\ ClaimField(bytes, f + 16, 4)
                = ClaimLE(ClaimByteRate(numChannels, ClaimU32(bytes, f + 12), depth), 4)
           /\ ClaimU16(bytes, f + 20) = numChannels * (depth \div 8)

C3_SizeAccounting ==
    (op = "save" /\ written.handed) =>
        /\ Len(written.bytes) = 44 + ClaimDataSize
        /\ ClaimField(written.bytes, 4, 4) = ClaimLE(4 + 24 + 8 + ClaimDataSize, 4)
        /\ 4 + 24 + 8 + ClaimDataSize = Len(written.bytes) - 8
        /\ ClaimField(written.bytes, 40, 4) = ClaimLE(ClaimDataSize, 4)

\* A stereo 24 bit buffer of two samples per channel was encoded.
C3_Witness ==
    /\ op = "save"
    /\ written.handed
    /\ bitDepth = 24
    /\ Len(samples) = 2
    /\ ClaimDataSize = 12

\* C4: with a bit depth outside {8, 16, 24}, save(path, Wave) returns false
\* and hands no byte sequence to writeDataToFile, whatever the buffer.
C4_BadBitDepthFails ==
    (op = "save" /\ arg.a = 1 /\ bitDepth \notin {8, 16, 24}) =>
        (ret = FALSE /\ ~ written.handed)

\* C5: a load that returns false leaves the sample buffer, the sample rate
\* and the bit depth as they were before the call.
C5_FailedLoadKeepsState ==
    [][ (op' = "load" /\ ret' = FALSE)
        => (samples' = samples /\ sampleRate' = sampleRate /\ bitDepth' = bitDepth) ]_vars

\* C6: sampleToSixteenBitInt gives 32767 for s >= 1.0, -32767 or -32768 for
\* s <= -1.0 and, for s inside (-1.0, 1.0), the value of s * 32767 with the
\* sign of s; clamp(value, min, max) is max(min, min(value, max)).
C6_SixteenBitSaturates ==
    /\ op = "sampleToSixteenBitInt" =>
          /\ arg.a >= Unit => ret = 32767
          /\ arg.a <= -Unit => ret \in {-32767, -32768}
          /\ (-Unit < arg.a /\ arg.a < Unit) =>
                /\ (arg.a > 0 => ret >= 0)
                /\ (arg.a < 0 => ret <= 0)
                /\ ClaimAbs(ret * 256 - arg.a) <= 256
    /\ op = "clamp" =>
          ret = (IF arg.a < -Unit THEN -Unit ELSE IF arg.a > Unit THEN Unit ELSE arg.a)

\* C7: every channel of the owned buffer has the number of samples that
\* getNumSamplesPerChannel returns.
C7_EqualChannelLength ==
    \A k \in 1..Len(samples) : Len(samples[k]) = ClaimSamplesPerChannel

\* C8: setAudioBuffer with a replacement of zero channels or of channels of
\* different lengths returns false and leaves the owned buffer as it was;
\* with a non-empty replacement of equal-length channels it returns true and
\* the owned buffer equals the replacement.
C8_SetAudioBufferAllOrNothing ==
    [][ op' = "setAudioBuffer" =>
          IF \/ Len(arg'.buf) = 0
             \/ \E k \in 1..Len(arg'.buf) : Len(arg'.buf[k]) # Len(arg'.buf[1])
          THEN ret' = FALSE /\ samples' = samples
          ELSE ret' = TRUE /\ samples' = arg'.buf ]_vars

\* C9: after setNumChannels(k) on a buffer of c channels whose first channel
\* has n samples, the buffer has k channels, channels 0..min(c,k)-1 are
\* unchanged and every new channel is n samples equal to 0.
C9_SetNumChannelsPreserves ==
    [][ op' = "setNumChannels" =>
          LET k == arg'.a
              c == Len(samples)
              n == ClaimSamplesPerChannel
          IN  /\ Len(samples') = k
              /\ \A j \in 1..k :
                     IF j <= c
                     THEN samples'[j] = samples[j]
                     ELSE samples'[j] = [i \in 1..n |-> 0] ]_vars

\* One channel of at least one sample was grown to three channels.
C9_Witness ==
    /\ op = "setNumChannels"
    /\ arg.a = 3
    /\ arg.b = 1
    /\ Len(samples) = 3
    /\ Len(samples[1]) > 0
    /\ samples[1][1] # 0

ClaimS24(b) ==
    LET u == b[1] + 256 * b[2] + 65536 * b[3]
    IN  IF u >= 8388608 THEN u - 16777216 ELSE u

\* C11: converting a PCM code v of bit depth 8, 16 or 24 to a sample and the
\* sample back yields a code that differs from v by at most 1.
C11_ConverterRoundTrip ==
    /\ op \in {"roundTrip8", "roundTrip16"} => ClaimAbs(ret - arg.a) <= 1
    /\ op = "roundTrip24" => ClaimAbs(ClaimS24(ret) - arg.a) <= 1

\* C13: the 24 bit encode writes FF FF 7F (the code 0x7FFFFF) for every
\* sample s >= 1.0 and the most negative code for every s <= -1.0, so a
\* sample of 1.0 or more never encodes to bytes that decode to a negative
\* sample.
C13_TwentyFourBitClamps ==
    op = "sampleToTwentyFourBit" =>
        /\ arg.a >= Unit => (ret = <<255, 255, 127>> /\ ClaimS24(ret) >= 0)
        /\ arg.a <= -Unit => ret = <<0, 0, 128>>

\* C14: getIndexOfString(source, s) returns the least index i with
\* 0 <= i <= length(source) - length(s) at which s occurs in source, an
\* occurrence ending exactly at the end of the stream included, and returns
\* -1 if and only if s does not occur.
C14_FirstOccurrence ==
    op = "getIndexOfString" =>
        IF ClaimOccurs(arg.bytes, arg.s)
        THEN ret = ClaimFirst(arg.bytes, arg.s)
        ELSE ret = -1

\* The sample that the bytes at off encode at a bit depth of 8, 16 or 24:
\* (b - 128) / 128, the signed 16 bit value / 32768, the signed 24 bit
\* value / 8388608.
ClaimSample(bytes, off, depth) ==
    IF depth = 8
    THEN (bytes[off + 1] - 128) * 65536
    ELSE IF depth = 16
         THEN LET u == ClaimU16(bytes, off)
              IN  (IF u >= 32768 THEN u - 65536 ELSE u) * 256
         ELSE ClaimS24(ClaimField(bytes, off, 3))

\* The four bytes of the size field after the first data marker are in the
\* stream.
ClaimDataSizePresent(bytes) ==
    /\ ClaimOccurs(bytes, <<100, 97, 116, 97>>)
    /\ ClaimFirst(bytes, <<100, 97, 116, 97>>) + 8 <= Len(bytes)

\* C12: after a successful load of a stream whose data marker is at d, the
\* buffer has numChannels channels of dataChunkSize / (numChannels *
\* bitDepth / 8) samples each, whatever it held before, and sample i of
\* channel c is the conversion of the bytes at
\* d + 8 + numBytesPerBlock * i + c * (bitDepth / 8).
C12_DecodeDeinterleaves ==
    (op = "load" /\ ret = TRUE /\ ClaimDataSizePresent(arg.bytes)) =>
        LET bytes == arg.bytes
            f == ClaimFirst(bytes, <<102, 109, 116>>)
            d == ClaimFirst(bytes, <<100, 97, 116, 97>>)
            numChannels == ClaimU16(bytes, f + 10)
            numBytesPerBlock == ClaimU16(bytes, f + 20)
            depth == ClaimU16(bytes, f + 22)
            numSamples == ClaimU32(bytes, d + 4) \div ((numChannels * depth) \div 8)
        IN  /\ Len(samples) = numChannels
            /\ \A c \in 1..numChannels : Len(samples[c]) = numSamples
            /\ \A c \in 1..numChannels : \A i \in 1..numSamples :
                   LET off == d + 8 + numBytesPerBlock * (i - 1) + (c - 1) * (depth \div 8)
                   IN  off + (depth \div 8) <= Len(bytes)
                         => samples[c][i] = ClaimSample(bytes, off, depth)

\* A caller's 24 bit stream of two channels of two samples was loaded.
C12_Witness ==
    /\ op = "load"
    /\ ret = TRUE
    /\ ~ arg.fromSave
    /\ bitDepth = 24
    /\ Len(samples) = 2
    /\ Len(samples[1]) = 2
    /\ Len(samples[2]) = 2
    /\ samples[1][2] # samples[2][1]

\* C15: during a load every index at which the decoder reads the stream is
\* at least 0 and below the length of the stream.
C15_ReadsInsideStream ==
    op = "load" => arg.b < Len(arg.bytes)

====
